---------------------------- MODULE Spec2Model ----------------------------
(***************************************************************************)
(* A model of the profile resolution engine of kenvmanager / kloch:        *)
(*   - the tokenised managers mapping and its "+" (PackageManagersSerial-  *)
(*     ized.__add__), get_resolved and unserialize,                        *)
(*   - EnvironmentProfile and get_merged_profile,                          *)
(*   - the profile repository of filesyntax/_io.py (lookup by identifier,  *)
(*     read_profile_from_file, read_profile_from_id, serialize_profile,    *)
(*     write_profile_to_file),                                             *)
(*   - KlochConfig.from_environment,                                       *)
(*   - the process-wide registry of extra locations (add_profile_location, *)
(*     get_profile_locations), with python lists as objects.               *)
(*                                                                         *)
(* Representation.                                                         *)
(*   A key is a sequence of one-character strings, so that                 *)
(*   str.startswith("+=") and str.removeprefix("+=") are computed.         *)
(*   A mapping (a python dict, which keeps insertion order) is a sequence  *)
(*   of items [k |-> key, v |-> value] with pairwise distinct keys.        *)
(*   A value is [t, s, m]: t = "seq" with the list in s, t = "scalar" with *)
(*   the scalar in s[1], t = "map" with the nested mapping in m.           *)
(***************************************************************************)
EXTENDS Integers, Sequences, FiniteSets, TLC

VARIABLES
    lhs,                          \* SpecAdd: the receiver of "+" / unserialize
    rhs,                          \* SpecAdd: the other operand, [cls, items]
    heap,                         \* SpecMerge: the EnvironmentProfile objects;
                                  \* SpecLocations: the lists allocated
    files,                        \* SpecIO: the file system, path -> content
    environ,                      \* os.environ, the variables the code reads
    PROFILE_LOCATIONS_INTERNAL,   \* _io.py's process-wide registry
    out                           \* the outcome of the last operation

vars == <<lhs, rhs, heap, files, environ, PROFILE_LOCATIONS_INTERNAL, out>>

None == "None"

-----------------------------------------------------------------------------
(* Values and mappings *)

Sq(s) == [t |-> "seq", s |-> s, m |-> <<>>]
Sc(x) == [t |-> "scalar", s |-> <<x>>, m |-> <<>>]
Mp(m) == [t |-> "map", s |-> <<>>, m |-> m]

Item(k, v) == [k |-> k, v |-> v]

Keys(d) == {d[i].k : i \in DOMAIN d}

IndexOf(d, k) == CHOOSE i \in DOMAIN d : d[i].k = k

Get(d, k) == d[IndexOf(d, k)].v

\* d[k] = v of a python dict: an existing key keeps its place, a new key is
\* added at the end.
SetItem(d, k, v) ==
    IF k \in Keys(d)
    THEN [d EXCEPT ![IndexOf(d, k)] = Item(k, v)]
    ELSE Append(d, Item(k, v))

UniqueKeys(d) == \A i, j \in DOMAIN d : d[i].k = d[j].k => i = j

-----------------------------------------------------------------------------
(* The "+=" token *)

Token == <<"+", "=">>

startswith(key, prefix) ==
    /\ Len(key) >= Len(prefix)
    /\ SubSeq(key, 1, Len(prefix)) = prefix

removeprefix(key, prefix) ==
    IF startswith(key, prefix)
    THEN SubSeq(key, Len(prefix) + 1, Len(key))
    ELSE key

\* a plausible slip: the token is never stripped
key_resolve_keeps_token(key) == key

key_resolve(key) == removeprefix(key, Token)

\* a plausible slip: the rule is read from the wrong side of the test
merge_rule_inverted(key) == IF startswith(key, Token) THEN "override" ELSE "append"

merge_rule(key) == IF startswith(key, Token) THEN "append" ELSE "override"

-----------------------------------------------------------------------------
(* _merging.deepmerge_dicts and _merging.refacto_dict (the merge algebra) *)

RECURSIVE deepmerge_dicts(_, _)
\* A left fold over the keys of over_content, in their order, onto
\* base_content; the keys of base_content alone are carried through.
deepmerge_dicts(over_content, base_content) ==
    IF over_content = <<>> THEN base_content
    ELSE LET n          == Len(over_content)
             acc        == deepmerge_dicts(SubSeq(over_content, 1, n - 1), base_content)
             over_key   == over_content[n].k
             over_value == over_content[n].v
             resolved_k == key_resolve(over_key)
             rule       == merge_rule(over_key)
         IN  IF resolved_k \notin Keys(acc)
             THEN Append(acc, Item(resolved_k, over_value))
             ELSE LET base_value == Get(acc, resolved_k)
                  IN  IF base_value.t = "map" /\ over_value.t = "map"
                      THEN SetItem(acc, resolved_k,
                                   Mp(deepmerge_dicts(over_value.m, base_value.m)))
                      ELSE IF /\ rule = "append"
                              /\ base_value.t = "seq"
                              /\ over_value.t = "seq"
                      THEN SetItem(acc, resolved_k, Sq(base_value.s \o over_value.s))
                      ELSE SetItem(acc, resolved_k, over_value)

RECURSIVE refacto_dict(_)
\* resolve(mapping): every key loses its token, nested mappings included.
refacto_dict(src_dict) ==
    IF src_dict = <<>> THEN <<>>
    ELSE LET n     == Len(src_dict)
             acc   == refacto_dict(SubSeq(src_dict, 1, n - 1))
             key   == src_dict[n].k
             value == src_dict[n].v
             new_value == IF value.t = "map" THEN Mp(refacto_dict(value.m)) ELSE value
         IN  SetItem(acc, removeprefix(key, Token), new_value)

-----------------------------------------------------------------------------
(* PackageManagersSerialized *)

\* a plausible slip: the operands are handed over in the wrong roles
PackageManagersSerialized_add_swapped(self, other) == deepmerge_dicts(self, other)

\* self + other, for other a PackageManagersSerialized
PackageManagersSerialized_add(self, other) == deepmerge_dicts(other, self)

get_resolved(self) == refacto_dict(self)

\* kenvmanager.managers.get_package_manager_class: the registry of manager
\* classes, by name; None for a name that is not registered.
RegisteredManagers == {<<"r", "e", "z">>, <<"p", "i", "p">>}

get_package_manager_class(manager_name) ==
    IF manager_name \in RegisteredManagers THEN manager_name ELSE None

\* manager_class.from_dict(manager_config)
from_dict_manager(manager_class, manager_config) ==
    [cls |-> manager_class, config |-> manager_config]

RECURSIVE unserialize_loop_partial(_)
\* a plausible slip: an unknown manager is skipped and the rest returned
unserialize_loop_partial(content) ==
    IF content = <<>> THEN [status |-> "ok", managers |-> <<>>]
    ELSE LET n    == Len(content)
             prev == unserialize_loop_partial(SubSeq(content, 1, n - 1))
             manager_class == get_package_manager_class(content[n].k)
         IN  IF manager_class = None THEN prev
             ELSE [status |-> "ok",
                   managers |-> Append(prev.managers,
                                       from_dict_manager(manager_class, content[n].v))]

RECURSIVE unserialize_loop(_)
\* the for loop of unserialize over content.items(): the first unknown name
\* raises, and nothing is returned.
unserialize_loop(content) ==
    IF content = <<>> THEN [status |-> "ok", managers |-> <<>>]
    ELSE LET n    == Len(content)
             prev == unserialize_loop(SubSeq(content, 1, n - 1))
             manager_class == get_package_manager_class(content[n].k)
         IN  IF prev.status # "ok" THEN prev
             ELSE IF manager_class = None
             THEN [status |-> "ValueError", managers |-> <<>>]
             ELSE [status |-> "ok",
                   managers |-> Append(prev.managers,
                                       from_dict_manager(manager_class, content[n].v))]

unserialize(self) == unserialize_loop(get_resolved(self))

-----------------------------------------------------------------------------
(* EnvironmentProfile *)

\* The profile objects live in heap, a sequence; an object is named by its
\* index. base is the index of the base profile, NoBase for None.
NoBase == 0

EnvironmentProfile(identifier, version, base, managers) ==
    [identifier |-> identifier, version |-> version, base |-> base,
     managers |-> managers]

RECURSIVE get_merged_profile_in_place(_, _)
\* a plausible slip: the receiver is flattened in place and returned
get_merged_profile_in_place(h, self) ==
    IF h[self].base # NoBase
    THEN LET r == get_merged_profile_in_place(h, h[self].base)
             managers == PackageManagersSerialized_add(r.heap[r.ret].managers,
                                                       h[self].managers)
         IN  [heap |-> [r.heap EXCEPT ![self] =
                           EnvironmentProfile(h[self].identifier, h[self].version,
                                              NoBase, managers)],
              ret |-> self]
    ELSE [heap |-> h, ret |-> self]

\* a plausible slip: only the direct base is merged, not the flattened chain
get_merged_profile_one_level(h, self) ==
    LET managers == IF h[self].base # NoBase
                    THEN PackageManagersSerialized_add(h[h[self].base].managers,
                                                       h[self].managers)
                    ELSE h[self].managers
    IN  [heap |-> Append(h, EnvironmentProfile(h[self].identifier, h[self].version,
                                               NoBase, managers)),
         ret |-> Len(h) + 1]

RECURSIVE get_merged_profile(_, _)
\* self.get_merged_profile() in heap h: the heap after the call and the
\* returned object. Every level of the recursion constructs a profile.
get_merged_profile(h, self) ==
    IF h[self].base # NoBase
    THEN LET r == get_merged_profile(h, h[self].base)
             managers == PackageManagersSerialized_add(r.heap[r.ret].managers,
                                                       h[self].managers)
         IN  [heap |-> Append(r.heap,
                              EnvironmentProfile(r.heap[self].identifier,
                                                 r.heap[self].version,
                                                 NoBase, managers)),
              ret |-> Len(r.heap) + 1]
    ELSE [heap |-> Append(h, EnvironmentProfile(h[self].identifier, h[self].version,
                                                NoBase, h[self].managers)),
          ret |-> Len(h) + 1]

-----------------------------------------------------------------------------
(* The mappings the operations are tried on *)

K_a    == <<"a">>
K_b    == <<"b">>
K_rez  == <<"r", "e", "z">>
K_pip  == <<"p", "i", "p">>
K_npm  == <<"n", "p", "m">>

SettingKeys == {K_a, Token \o K_a, K_b}

Leaves == {Sq(<<1>>), Sq(<<2, 3>>), Sc(7)}

\* the settings of one manager: no key, one key, or "a" followed by another
Blocks ==
    {<<>>}
    \cup {<<Item(k, v)>> : k \in SettingKeys, v \in Leaves}
    \cup {<<Item(K_a, Sq(<<1>>)), Item(k, v)>> : k \in {Token \o K_a, K_b}, v \in Leaves}
    \cup {<<Item(Token \o K_a, Sq(<<2, 3>>)), Item(K_a, v)>> : v \in Leaves}

SmallBlocks == {<<>>, <<Item(K_a, Sq(<<1>>))>>}

TopKeys == {K_rez, Token \o K_rez, K_pip, K_npm}

TopValues == {Mp(b) : b \in Blocks} \cup {Sq(<<1>>), Sq(<<2, 3>>)}

ManagersSamples ==
    {<<>>}
    \cup {<<Item(k, v)>> : k \in TopKeys, v \in TopValues}
    \cup {<<Item(k1, Mp(b1)), Item(k2, Mp(b2))>> :
            <<k1, k2>> \in {kk \in TopKeys \X TopKeys : kk[1] # kk[2]},
            <<b1, b2>> \in SmallBlocks \X SmallBlocks}

IdleOut == [op |-> "init", status |-> "ok", value |-> <<>>]

-----------------------------------------------------------------------------
(* SpecAdd: "+" and unserialize on mappings drawn from ManagersSamples *)

InitAdd ==
    /\ lhs \in ManagersSamples
    /\ rhs \in [cls : {"PackageManagersSerialized", "dict"}, items : ManagersSamples]
    /\ heap = <<>>
    /\ files = <<>>
    /\ environ = <<>>
    /\ PROFILE_LOCATIONS_INTERNAL = <<>>
    /\ out = IdleOut

\* lhs + rhs
Add ==
    /\ out.op = "init"
    /\ out' = IF rhs.cls # "PackageManagersSerialized"
              THEN [op |-> "add", status |-> "TypeError", value |-> <<>>]
              ELSE [op |-> "add", status |-> "ok",
                    value |-> PackageManagersSerialized_add(lhs, rhs.items)]
    /\ UNCHANGED <<lhs, rhs, heap, files, environ, PROFILE_LOCATIONS_INTERNAL>>

\* lhs.unserialize()
Unserialize ==
    /\ out.op = "init"
    /\ LET r == unserialize(lhs)
       IN  out' = [op |-> "unserialize", status |-> r.status, value |-> r.managers]
    /\ UNCHANGED <<lhs, rhs, heap, files, environ, PROFILE_LOCATIONS_INTERNAL>>

NextAdd == Add \/ Unserialize

SpecAdd == InitAdd /\ [][NextAdd]_vars

-----------------------------------------------------------------------------
(* SpecMerge: get_merged_profile on inheritance chains *)

MaxChain == 3
MaxHeap  == 6

ChainManagers ==
    {<<>>}
    \cup {<<Item(k, Mp(b))>> :
            k \in {K_rez, Token \o K_rez},
            b \in {<<Item(K_a, Sq(<<1>>))>>,
                   <<Item(Token \o K_a, Sq(<<2, 3>>))>>,
                   <<Item(K_b, Sc(7))>>}}

Identifiers == <<"A", "B", "C", "D", "E">>

Versions == {"0.1", "0.2"}

\* heap holds one chain: object 1 has no base, object i + 1 bases on object i
InitMerge ==
    /\ \E n \in 1..MaxChain :
           \E ms \in [1..n -> ChainManagers], vs \in [1..n -> Versions] :
               heap = [i \in 1..n |->
                          EnvironmentProfile(Identifiers[i], vs[i], i - 1, ms[i])]
    /\ lhs = <<>>
    /\ rhs = [cls |-> "PackageManagersSerialized", items |-> <<>>]
    /\ files = <<>>
    /\ environ = <<>>
    /\ PROFILE_LOCATIONS_INTERNAL = <<>>
    /\ out = IdleOut

RECURSIVE ChainOf(_, _)
\* the base chain of object o in heap h, the oldest ancestor first
ChainOf(h, o) ==
    IF h[o].base = NoBase THEN <<o>> ELSE Append(ChainOf(h, h[o].base), o)

\* o.get_merged_profile() for an object o of the heap; out keeps the heap as
\* it was before the call
GetMergedProfile(o) ==
    /\ Len(heap) + Len(ChainOf(heap, o)) <= MaxHeap
    /\ LET r == get_merged_profile(heap, o)
       IN  /\ heap' = r.heap
           /\ out' = [op |-> "get_merged_profile", status |-> "ok", value |-> r.ret,
                      self |-> o, before |-> heap]
    /\ UNCHANGED <<lhs, rhs, files, environ, PROFILE_LOCATIONS_INTERNAL>>

NextMerge == \E o \in DOMAIN heap : GetMergedProfile(o)

SpecMerge == InitMerge /\ [][NextMerge]_vars

-----------------------------------------------------------------------------
(* C1, C2: get_merged_profile *)

RECURSIVE CombineInOrder(_)
\* ((m1 combined with m2) ... combined with mn), the ancestor on the base side
CombineInOrder(ms) ==
    IF Len(ms) = 1 THEN ms[1]
    ELSE deepmerge_dicts(ms[Len(ms)], CombineInOrder(SubSeq(ms, 1, Len(ms) - 1)))

MergedDone == out.op = "get_merged_profile"

\* C1: for a chain P1 <- ... <- Pn, Pn.get_merged_profile() has the managers
\* of the chain combined from the oldest ancestor to Pn, the ancestor always
\* on the base side, base None, and the identifier and version of Pn.
C1_MergedChain ==
    MergedDone =>
        LET chain  == ChainOf(out.before, out.self)
            result == heap[out.value]
        IN  /\ result.managers =
                   CombineInOrder([i \in DOMAIN chain |-> out.before[chain[i]].managers])
            /\ result.base = NoBase
            /\ result.identifier = out.before[out.self].identifier
            /\ result.version = out.before[out.self].version

\* C1 witness: a chain of three whose merge differs from what merging the two
\* descendants first, or only the direct base, would give.
C1_Witness ==
    /\ MergedDone
    /\ LET chain == ChainOf(out.before, out.self)
           m(i)  == out.before[chain[i]].managers
       IN  /\ Len(chain) = 3
           /\ heap[out.value].managers #
                  deepmerge_dicts(deepmerge_dicts(m(3), m(2)), m(1))
           /\ heap[out.value].managers # deepmerge_dicts(m(3), m(2))
           /\ out.before[chain[3]].version # out.before[chain[2]].version

\* C2: get_merged_profile mutates no profile it reads: every object that was
\* in the heap is as it was, and the result is none of the profiles of the
\* chain that have a base.
C2_NoMutation ==
    MergedDone =>
        /\ \A o \in DOMAIN out.before : o \in DOMAIN heap /\ heap[o] = out.before[o]
        /\ \A i \in DOMAIN ChainOf(out.before, out.self) :
               LET o == ChainOf(out.before, out.self)[i]
               IN  out.before[o].base # NoBase => out.value # o

\* C2 witness: a call on a profile with two ancestors whose merged managers
\* differ from its own.
C2_Witness ==
    /\ MergedDone
    /\ Len(ChainOf(out.before, out.self)) = 3
    /\ heap[out.value].managers # out.before[out.self].managers
    /\ Len(heap) > Len(out.before)

-----------------------------------------------------------------------------
(* C7: the sequences of a combination *)

HasToken(k) == startswith(k, Token)

Bare(k) == removeprefix(k, Token)

\* over[i] is the only item of over with its prefix-stripped name
SoleOverKey(over, i) ==
    \A j \in DOMAIN over : Bare(over[j].k) = Bare(over[i].k) => j = i

\* base[Bare(over[i].k)] and over[i] are both sequences
BothSequences(base, over, i) ==
    /\ Bare(over[i].k) \in Keys(base)
    /\ Get(base, Bare(over[i].k)).t = "seq"
    /\ over[i].v.t = "seq"

\* what C7 says of the over key over[i] in res = base + over
SequenceRule(base, over, res, i) ==
    LET k  == over[i].k
        rk == Bare(k)
    IN  /\ rk \in Keys(res)
        /\ Get(res, rk) = IF HasToken(k)
                          THEN Sq(Get(base, rk).s \o over[i].v.s)
                          ELSE over[i].v
        /\ (HasToken(k) /\ k \notin Keys(base)) => k \notin Keys(res)

\* the items of base that no over key names are in res as they were, in place
BaseOnlyCarried(base, over, res) ==
    \A j \in DOMAIN base :
        (\A i \in DOMAIN over : Bare(over[i].k) # base[j].k)
            => j \in DOMAIN res /\ res[j] = base[j]

\* C7 on one mapping level; sole restricts it to the over keys that are the
\* only one with their prefix-stripped name
CombineLevel(base, over, res, sole) ==
    /\ \A i \in DOMAIN over :
           (BothSequences(base, over, i) /\ (sole => SoleOverKey(over, i)))
               => SequenceRule(base, over, res, i)
    /\ BaseOnlyCarried(base, over, res)

\* the same one level down: the manager blocks present on both sides
CombineNested(base, over, res) ==
    \A i \in DOMAIN over :
        LET rk == Bare(over[i].k)
        IN  (/\ SoleOverKey(over, i)
             /\ rk \in Keys(base)
             /\ Get(base, rk).t = "map"
             /\ over[i].v.t = "map")
                => /\ rk \in Keys(res)
                   /\ Get(res, rk).t = "map"
                   /\ CombineLevel(Get(base, rk).m, over[i].v.m, Get(res, rk).m, TRUE)

AddDone == out.op = "add" /\ out.status = "ok"

\* C7 as stated: in base + over, for every key present on both sides whose
\* values are sequences, an over key without "+=" replaces the base sequence
\* and an over key with "+=" yields the base sequence followed by the over
\* sequence, under the prefix-stripped name; keys of base alone are carried
\* through unchanged.
C7_AsStated ==
    AddDone =>
        /\ CombineLevel(lhs, rhs.items, out.value, FALSE)
        /\ \A i \in DOMAIN rhs.items :
               LET rk == Bare(rhs.items[i].k)
               IN  (/\ rk \in Keys(lhs)
                    /\ Get(lhs, rk).t = "map"
                    /\ rhs.items[i].v.t = "map"
                    /\ SoleOverKey(rhs.items, i))
                       => CombineLevel(Get(lhs, rk).m, rhs.items[i].v.m,
                                       Get(out.value, rk).m, FALSE)

\* C7 amended: the same, for every over key that is the only key of over with
\* its prefix-stripped name (over may hold both "a" and "+=a": the later one
\* then acts on the result of the earlier one).
C7_SequenceRule ==
    AddDone =>
        /\ CombineLevel(lhs, rhs.items, out.value, TRUE)
        /\ CombineNested(lhs, rhs.items, out.value)

\* C7 witness: a "+=" key of a manager block appended its sequence to the
\* base's, while another key of the base block was carried through.
C7_Witness ==
    /\ AddDone
    /\ \E i \in DOMAIN rhs.items :
           LET rk == Bare(rhs.items[i].k)
           IN  /\ rk \in Keys(lhs)
               /\ Get(lhs, rk).t = "map"
               /\ rhs.items[i].v.t = "map"
               /\ \E j \in DOMAIN rhs.items[i].v.m :
                      /\ HasToken(rhs.items[i].v.m[j].k)
                      /\ BothSequences(Get(lhs, rk).m, rhs.items[i].v.m, j)
                      /\ Len(Get(lhs, rk).m) = 2
                      /\ Len(Get(Get(out.value, rk).m,
                                 Bare(rhs.items[i].v.m[j].k)).s) >= 2

-----------------------------------------------------------------------------
(* C9: unserialize *)

\* C9: unserialize returns one instance per top-level block of the resolved
\* mapping, in the mapping's key order, each built by the class registered
\* for its name; with a name that has no registered class it raises and
\* returns no list, not even a partial one.
C9_Unserialize ==
    out.op = "unserialize" =>
        LET content == get_resolved(lhs)
        IN  IF \A i \in DOMAIN content : content[i].k \in RegisteredManagers
            THEN /\ out.status = "ok"
                 /\ Len(out.value) = Len(content)
                 /\ \A i \in DOMAIN content :
                        out.value[i] = [cls |-> content[i].k, config |-> content[i].v]
            ELSE /\ out.status = "ValueError"
                 /\ out.value = <<>>

\* C9 witness: a registered manager comes first and an unknown one second;
\* the call raised.
C9_Witness ==
    /\ out.op = "unserialize"
    /\ out.status = "ValueError"
    /\ Len(lhs) = 2
    /\ Bare(lhs[1].k) \in RegisteredManagers
    /\ Bare(lhs[2].k) \notin RegisteredManagers

-----------------------------------------------------------------------------
(* filesyntax/_io.py: the profile repository *)

\* A path is <<directory, file name>>; every file modelled has the suffix
\* .yml. The content of a file is the mapping yaml.safe_load returns:
\*   magic      the "__magic__" string, as its parts between ":"
\*   identifier, version
\*   base       <<>> when the key is absent, <<identifier>> otherwise
\*   managers   the plain mapping, tokens kept
\* An optional value is a sequence of length 0 or 1 throughout.

KENV_PROFILE_MAGIC == "kloch_profile"

KENV_PROFILE_VERSION == 2

NoFile == [exists |-> FALSE]

\* str(int) and int(str) on the version numbers that occur
StrOf(n) == CASE n = 1 -> "1" [] n = 2 -> "2" [] n = 999 -> "999"

IntOf(str) == CASE str = "1" -> 1 [] str = "2" -> 2 [] str = "999" -> 999

\* a profile in memory: base is <<>> for None, <<profile>> otherwise
Profile(identifier, version, base, managers) ==
    [identifier |-> identifier, version |-> version, base |-> base,
     managers |-> managers]

\* EnvironmentProfile.from_dict
from_dict(serialized) ==
    Profile(serialized.identifier, serialized.version, serialized.base,
            serialized.managers)

\* EnvironmentProfile.to_dict
to_dict(self) ==
    [identifier |-> self.identifier, version |-> self.version,
     base |-> IF self.base # <<>> THEN self.base ELSE <<>>,
     managers |-> self.managers]

NameOrder == <<"x", "y">>

Paths == {<<"d1", "x">>, <<"d1", "y">>, <<"d2", "x">>}

\* location.glob("*.yml"), in the directory's enumeration order; a directory
\* that does not exist or is empty yields nothing
glob(location) ==
    LET present(name) == <<location, name>> \in Paths /\ files[<<location, name>>] # NoFile
        names == SelectSeq(NameOrder, present)
    IN  [i \in DOMAIN names |-> <<location, names[i]>>]

is_file_environment_profile(file_path) ==
    files[file_path].magic[1] = KENV_PROFILE_MAGIC

add_profile_location(registry, location) ==
    IF \E i \in DOMAIN registry : registry[i] = location
    THEN registry
    ELSE Append(registry, location)

\* os.getenv(KENV_PROFILE_PATHS).split(os.pathsep): the variable is kept as
\* the list of its directories, <<>> when it is unset or empty
get_profile_locations ==
    LET locations == environ.KENV_PROFILE_PATHS
    IN  IF locations = <<>> /\ PROFILE_LOCATIONS_INTERNAL = <<>> THEN <<>>
        ELSE IF locations # <<>> THEN locations \o PROFILE_LOCATIONS_INTERNAL
        ELSE PROFILE_LOCATIONS_INTERNAL

RECURSIVE profile_paths_of(_)
\* [path for location in locations for path in location.glob("*.yml")
\*  if is_file_environment_profile(path)]
profile_paths_of(locations) ==
    IF locations = <<>> THEN <<>>
    ELSE SelectSeq(glob(Head(locations)), is_file_environment_profile)
             \o profile_paths_of(Tail(locations))

\* profile_locations is <<>> for None; an empty list is falsy as well
get_all_profile_file_paths(locations) ==
    profile_paths_of(IF locations # <<>> THEN locations ELSE get_profile_locations)

_get_profile_identifier(file_path) == files[file_path].identifier

get_profile_file_path(profile_id, profile_locations) ==
    LET declares(path) == _get_profile_identifier(path) = profile_id
    IN  SelectSeq(get_all_profile_file_paths(profile_locations), declares)

\* the outcome of a call: a returned value, or the exception raised and the
\* file that was being read when it was raised
Returned(value) == [status |-> "ok", value |-> <<value>>, at |-> <<>>]

Raised(exception, at) == [status |-> exception, value |-> <<>>, at |-> at]

\* stands for the interpreter's recursion limit
RecursionLimit == 5

\* a plausible slip: any version is accepted
version_supported_any(profile_version) == TRUE

version_supported(profile_version) == profile_version = KENV_PROFILE_VERSION

\* an outcome of read_profile_from_file, with the number of its frames that
\* were on the call stack at the deepest point of the call
Frames(outcome, frames) ==
    [status |-> outcome.status, value |-> outcome.value, at |-> outcome.at,
     frames |-> frames]

RECURSIVE read_profile_from_file(_, _, _)
\* depth counts the frames of the recursion: the call is the depth-th frame
read_profile_from_file(file_path, profile_locations, depth) ==
    IF depth > RecursionLimit
    THEN Frames(Raised("RecursionError", file_path), depth - 1)
    ELSE
    LET asdict == files[file_path]
        profile_version == IntOf(asdict.magic[Len(asdict.magic)])
    IN  IF ~version_supported(profile_version)
        THEN Frames(Raised("SyntaxError", file_path), depth)
        ELSE IF asdict.base # <<>>
        THEN LET base_paths == get_profile_file_path(asdict.base[1], profile_locations)
             IN  IF Len(base_paths) >= 2
                 THEN Frames(Raised("ValueError_multiple", file_path), depth)
                 ELSE IF base_paths = <<>>
                 THEN Frames(Raised("ValueError_not_found", file_path), depth)
                 ELSE LET base_profile ==
                              read_profile_from_file(base_paths[1], <<>>, depth + 1)
                      IN  IF base_profile.status # "ok" THEN base_profile
                          ELSE Frames(Returned(from_dict(
                                          [asdict EXCEPT !.base = base_profile.value])),
                                      base_profile.frames)
        ELSE Frames(Returned(from_dict(asdict)), depth)

read_profile_from_id(profile_id, profile_locations) ==
    LET profile_paths == get_profile_file_path(profile_id, profile_locations)
    IN  IF profile_paths = <<>>
        THEN Frames(Raised("IndexError", <<>>), 0)
        ELSE read_profile_from_file(profile_paths[1], profile_locations, 1)

\* the mapping that yaml.dump writes, or the exception raised
serialize_profile(profile, profile_locations) ==
    LET asdict == to_dict(profile)
        magic  == <<KENV_PROFILE_MAGIC, StrOf(KENV_PROFILE_VERSION)>>
    IN  IF asdict.base # <<>>
        THEN LET base_profile == asdict.base[1]
                 base_path == get_profile_file_path(base_profile.identifier,
                                                    profile_locations)
             IN  IF base_path = <<>>
                 THEN Raised("ValueError_not_registered", <<>>)
                 ELSE Returned([magic |-> magic,
                                identifier |-> asdict.identifier,
                                version |-> asdict.version,
                                base |-> <<base_profile.identifier>>,
                                managers |-> asdict.managers])
        ELSE Returned([magic |-> magic,
                       identifier |-> asdict.identifier,
                       version |-> asdict.version,
                       base |-> <<>>,
                       managers |-> asdict.managers])

InSeq(x, seq) == \E i \in DOMAIN seq : seq[i] = x

\* the file system after the call, and its outcome
write_profile_to_file(profile, file_path, profile_locations, check_valid_id) ==
    LET profile_paths == get_profile_file_path(profile.identifier, profile_locations)
        serialized    == serialize_profile(profile, profile_locations)
    IN  IF check_valid_id /\ profile_paths # <<>> /\ ~InSeq(file_path, profile_paths)
        THEN [files |-> files, outcome |-> Raised("ValueError_multiple", <<>>)]
        ELSE IF serialized.status # "ok"
        THEN [files |-> files, outcome |-> serialized]
        ELSE [files |-> [files EXCEPT ![file_path] = serialized.value[1]],
              outcome |-> Returned(file_path)]

-----------------------------------------------------------------------------
(* SpecIO: reads and writes on a small file system *)

M1 == <<Item(K_rez, Mp(<<Item(Token \o K_a, Sq(<<1>>))>>))>>
M2 == <<Item(K_rez, Mp(<<Item(K_a, Sq(<<2, 3>>))>>)), Item(K_pip, Mp(<<>>))>>

A0   == Profile("A", "0.1", <<>>, M1)
B0   == Profile("B", "0.1", <<A0>>, M1)
C0   == Profile("C", "0.1", <<B0>>, M1)
Cnew == Profile("C", "0.2", <<B0>>, M2)

\* the profiles a caller holds in memory and writes
MemProfiles == {A0, B0, C0, Cnew}

FileOf(token, number, identifier, base) ==
    [magic |-> <<token, number>>, identifier |-> identifier, version |-> "0.1",
     base |-> base, managers |-> M1]

\* the files found on disk at the start: the chain A <- B <- C, an A that
\* bases on B, a B of another format version, and a .yml file that is not a
\* profile
FileSamples ==
    {FileOf(KENV_PROFILE_MAGIC, "2", "A", <<>>),
     FileOf(KENV_PROFILE_MAGIC, "2", "B", <<"A">>),
     FileOf(KENV_PROFILE_MAGIC, "2", "C", <<"B">>),
     FileOf(KENV_PROFILE_MAGIC, "2", "A", <<"B">>),
     FileOf(KENV_PROFILE_MAGIC, "999", "B", <<"A">>),
     FileOf("other", "2", "A", <<>>)}

ProfileIds == {"A", "B", "C"}

\* the profile_locations argument; <<>> is None
LocationChoices == {<<>>, <<"d1">>, <<"d1", "d2">>}

InitIO ==
    /\ files \in [Paths -> FileSamples \cup {NoFile}]
    /\ environ \in [KENV_PROFILE_PATHS : {<<>>, <<"d2">>}]
    /\ PROFILE_LOCATIONS_INTERNAL \in {<<>>, <<"d1">>}
    /\ lhs = <<>>
    /\ rhs = [cls |-> "PackageManagersSerialized", items |-> <<>>]
    /\ heap = <<>>
    /\ out = IdleOut

ReadProfileFromFile(file_path, profile_locations) ==
    /\ out.op = "init"
    /\ files[file_path] # NoFile
    /\ LET r == read_profile_from_file(file_path, profile_locations, 1)
       IN  out' = [op |-> "read_profile_from_file", status |-> r.status,
                   value |-> r.value, at |-> r.at, frames |-> r.frames,
                   file_path |-> file_path, profile_locations |-> profile_locations]
    /\ UNCHANGED <<lhs, rhs, heap, files, environ, PROFILE_LOCATIONS_INTERNAL>>

ReadProfileFromId(profile_id, profile_locations) ==
    /\ out.op = "init"
    /\ LET r == read_profile_from_id(profile_id, profile_locations)
       IN  out' = [op |-> "read_profile_from_id", status |-> r.status,
                   value |-> r.value, at |-> r.at,
                   profile_id |-> profile_id, profile_locations |-> profile_locations]
    /\ UNCHANGED <<lhs, rhs, heap, files, environ, PROFILE_LOCATIONS_INTERNAL>>

\* out keeps the file system as it was before the call
WriteProfileToFile(profile, file_path, profile_locations, check_valid_id) ==
    /\ out.op = "init"
    /\ LET r == write_profile_to_file(profile, file_path, profile_locations,
                                      check_valid_id)
       IN  /\ files' = r.files
           /\ out' = [op |-> "write_profile_to_file", status |-> r.outcome.status,
                      value |-> r.outcome.value, profile |-> profile,
                      file_path |-> file_path, profile_locations |-> profile_locations,
                      check_valid_id |-> check_valid_id, before |-> files]
    /\ UNCHANGED <<lhs, rhs, heap, environ, PROFILE_LOCATIONS_INTERNAL>>

\* read_profile_from_file on the path just written, with the same locations
ReadBack ==
    /\ out.op = "write_profile_to_file"
    /\ out.status = "ok"
    /\ LET r == read_profile_from_file(out.file_path, out.profile_locations, 1)
       IN  out' = [op |-> "read_back", status |-> r.status, value |-> r.value,
                   at |-> r.at, profile |-> out.profile, file_path |-> out.file_path,
                   profile_locations |-> out.profile_locations]
    /\ UNCHANGED <<lhs, rhs, heap, files, environ, PROFILE_LOCATIONS_INTERNAL>>

NextIO ==
    \/ \E file_path \in Paths, locations \in LocationChoices :
           ReadProfileFromFile(file_path, locations)
    \/ \E profile_id \in ProfileIds, locations \in LocationChoices :
           ReadProfileFromId(profile_id, locations)
    \/ \E profile \in MemProfiles, file_path \in Paths,
          locations \in LocationChoices, check_valid_id \in BOOLEAN :
           WriteProfileToFile(profile, file_path, locations, check_valid_id)
    \/ ReadBack

SpecIO == InitIO /\ [][NextIO]_vars

-----------------------------------------------------------------------------
(* C3, C4, C5, C6, C8: the repository *)

\* the locations a call searches: the ones passed, the defaults for None
EffectiveLocations(profile_locations) ==
    IF profile_locations # <<>> THEN profile_locations ELSE get_profile_locations

\* the profile files of file system fs, in locations, that declare identifier
FilesDeclaring(fs, identifier, locations) ==
    {path \in Paths : /\ fs[path] # NoFile
                      /\ InSeq(path[1], locations)
                      /\ fs[path].magic[1] = KENV_PROFILE_MAGIC
                      /\ fs[path].identifier = identifier}

TheFileDeclaring(identifier, locations) ==
    CHOOSE path \in FilesDeclaring(files, identifier, locations) : TRUE

RECURSIVE ChainResolvable(_, _, _)
\* path and at most n - 1 ancestors form a chain that ends in a profile with
\* no base: each file lies in locations with a supported version, and each
\* identifier of the chain is declared by exactly one file of locations
ChainResolvable(path, locations, n) ==
    /\ n > 0
    /\ files[path] # NoFile
    /\ FilesDeclaring(files, files[path].identifier, locations) = {path}
    /\ IntOf(files[path].magic[2]) = KENV_PROFILE_VERSION
    /\ \/ files[path].base = <<>>
       \/ /\ files[path].base # <<>>
          /\ Cardinality(FilesDeclaring(files, files[path].base[1], locations)) = 1
          /\ ChainResolvable(TheFileDeclaring(files[path].base[1], locations),
                             locations, n - 1)

RECURSIVE FullyLoaded(_, _)
\* the profile of path with every base of the chain loaded from locations
FullyLoaded(path, locations) ==
    Profile(files[path].identifier, files[path].version,
            IF files[path].base = <<>> THEN <<>>
            ELSE <<FullyLoaded(TheFileDeclaring(files[path].base[1], locations),
                               locations)>>,
            files[path].managers)

\* C3 as stated: a lookup by identifier fails with a conflict error when two
\* or more profile files of the locations declare the identifier, with a
\* not-found error when none does, and yields a profile only when exactly one
\* does; for read_profile_from_id and for the base of read_profile_from_file.
C3_AsStated ==
    /\ out.op = "read_profile_from_id" =>
           LET n == Cardinality(FilesDeclaring(files, out.profile_id,
                                    EffectiveLocations(out.profile_locations)))
           IN  /\ n >= 2 => out.status = "ValueError_multiple"
               /\ n = 0 => out.status \in {"ValueError_not_found", "IndexError"}
               /\ out.status = "ok" => n = 1
    /\ (/\ out.op = "read_profile_from_file"
        /\ IntOf(files[out.file_path].magic[2]) = KENV_PROFILE_VERSION
        /\ files[out.file_path].base # <<>>) =>
           LET n == Cardinality(FilesDeclaring(files, files[out.file_path].base[1],
                                    EffectiveLocations(out.profile_locations)))
           IN  /\ n >= 2 => out.status = "ValueError_multiple" /\ out.at = out.file_path
               /\ n = 0 => out.status = "ValueError_not_found" /\ out.at = out.file_path
               /\ out.status = "ok" => n = 1

\* C4 as stated: read_profile_from_file(path, locations) resolves every base
\* of the chain against the locations it was given: when the chain is
\* resolvable there, the result is the fully loaded chain, whatever the
\* default locations are.
C4_AsStated ==
    (/\ out.op = "read_profile_from_file"
     /\ out.profile_locations # <<>>
     /\ ChainResolvable(out.file_path, out.profile_locations, Cardinality(Paths))) =>
        /\ out.status = "ok"
        /\ out.value = <<FullyLoaded(out.file_path, out.profile_locations)>>

\* C5 as stated: a checked write fails with a conflict error and writes
\* nothing whenever a profile file of the locations other than the target
\* declares the identifier, the target being among the matches or not; and a
\* checked write that succeeds where the identifiers were unique leaves them
\* unique.
C5_AsStated ==
    (out.op = "write_profile_to_file" /\ out.check_valid_id) =>
        LET locations == EffectiveLocations(out.profile_locations)
            others == FilesDeclaring(out.before, out.profile.identifier, locations)
                          \ {out.file_path}
        IN  /\ others # {} => out.status = "ValueError_multiple" /\ files = out.before
            /\ (/\ out.status = "ok"
                /\ \A id \in ProfileIds :
                       Cardinality(FilesDeclaring(out.before, id, locations)) <= 1)
                   => \A id \in ProfileIds :
                          Cardinality(FilesDeclaring(files, id, locations)) <= 1

\* the base of profile is what the search locations hold: exactly one file
\* declares its identifier, and loading that file gives the base
BaseRegistered(profile, locations) ==
    \/ profile.base = <<>>
    \/ /\ profile.base # <<>>
       /\ Cardinality(FilesDeclaring(files, profile.base[1].identifier, locations)) = 1
       /\ LET path == TheFileDeclaring(profile.base[1].identifier, locations)
          IN  /\ ChainResolvable(path, locations, Cardinality(Paths))
              /\ FullyLoaded(path, locations) = profile.base[1]

\* C6 as stated: write_profile(P, path) then read_profile(path), with the same
\* search locations and the base of P registered there, returns a profile
\* equal to P; the file holds the base as its identifier only and the
\* managers as the plain mapping, tokens kept.
C6_AsStated ==
    (/\ out.op = "read_back"
     /\ BaseRegistered(out.profile, EffectiveLocations(out.profile_locations))) =>
        /\ out.status = "ok"
        /\ out.value = <<out.profile>>
        /\ files[out.file_path].managers = out.profile.managers
        /\ files[out.file_path].base =
               IF out.profile.base = <<>> THEN <<>>
               ELSE <<out.profile.base[1].identifier>>

\* C8: read_profile_from_file raises the format error, and returns nothing,
\* for every file whose magic carries another version than the supported
\* one, whatever its base reference resolves to; a file with the supported
\* version does not raise it.
C8_VersionCheck ==
    out.op = "read_profile_from_file" =>
        LET number == IntOf(files[out.file_path].magic[2])
        IN  /\ number # KENV_PROFILE_VERSION =>
                   /\ out.status = "SyntaxError"
                   /\ out.value = <<>>
                   /\ out.at = out.file_path
            /\ number = KENV_PROFILE_VERSION =>
                   ~(out.status = "SyntaxError" /\ out.at = out.file_path)

\* C8 witness: a file of version 999 whose base is declared by no file of the
\* locations was read, and the format error was raised.
C8_Witness ==
    /\ out.op = "read_profile_from_file"
    /\ IntOf(files[out.file_path].magic[2]) = 999
    /\ files[out.file_path].base # <<>>
    /\ FilesDeclaring(files, files[out.file_path].base[1],
                      EffectiveLocations(out.profile_locations)) = {}
    /\ out.status = "SyntaxError"

-----------------------------------------------------------------------------
(* config.py: KlochConfig *)

\* An environment variable is <<>> when it is not set and <<value>> when it
\* is; the value of KLOCH_CONFIG_LAUNCHER_PLUGINS is a sequence of characters,
\* so that str.split(",") is computed. A configuration file is the mapping
\* yaml.safe_load returns, each field <<>> when the key is absent.

ConfigFields == {"launcher_plugins", "cli_logging_format", "cli_logging_default_level"}

\* field.metadata["environ"]
EnvironOf(field_name) ==
    CASE field_name = "launcher_plugins" -> "KLOCH_CONFIG_LAUNCHER_PLUGINS"
      [] field_name = "cli_logging_format" -> "KLOCH_CONFIG_CLI_LOGGING_FORMAT"
      [] field_name = "cli_logging_default_level" -> "KLOCH_CONFIG_CLI_LOGGING_DEFAULT_LEVEL"

RECURSIVE _cast_list(_)
\* src_str.split(",")
_cast_list(src_str) ==
    IF \A i \in DOMAIN src_str : src_str[i] # ","
    THEN <<src_str>>
    ELSE LET i == CHOOSE j \in DOMAIN src_str :
                      src_str[j] = "," /\ \A l \in 1..(j - 1) : src_str[l] # ","
         IN  <<SubSeq(src_str, 1, i - 1)>>
                 \o _cast_list(SubSeq(src_str, i + 1, Len(src_str)))

\* field.metadata["environ_cast"]
environ_cast(field_name, value) ==
    IF field_name = "launcher_plugins" THEN _cast_list(value) ELSE value

\* the defaults of the dataclass fields
DefaultOf(field_name) ==
    CASE field_name = "launcher_plugins" -> <<>>
      [] field_name = "cli_logging_format" ->
             "{levelname: <7} | {asctime} [{name}] {message}"
      [] field_name = "cli_logging_default_level" -> "INFO"

\* KlochConfig(**asdict): asdict gives each field as <<>> or <<value>>
KlochConfig(asdict) ==
    [field_name \in ConfigFields |->
        IF asdict[field_name] # <<>> THEN asdict[field_name][1]
        ELSE DefaultOf(field_name)]

\* KlochConfig.from_file
from_file(file_path) ==
    IF file_path \notin DOMAIN files
    THEN Raised("FileNotFoundError", file_path)
    ELSE Returned(KlochConfig(files[file_path]))

\* a plausible slip: the file is applied after the variables and wins
from_environment_file_wins ==
    LET path == environ.KLOCH_CONFIG_PATH
        base == from_file(path[1])
        fromenv == [field_name \in ConfigFields |->
                       IF environ[EnvironOf(field_name)] # <<>>
                       THEN <<environ_cast(field_name, environ[EnvironOf(field_name)][1])>>
                       ELSE <<>>]
    IN  IF path # <<>> /\ path[1] # ""
        THEN IF base.status # "ok" THEN base
             ELSE Returned(KlochConfig(
                      [field_name \in ConfigFields |->
                          IF files[path[1]][field_name] # <<>>
                          THEN files[path[1]][field_name]
                          ELSE fromenv[field_name]]))
        ELSE Returned(KlochConfig(fromenv))

\* KlochConfig.from_environment
from_environment ==
    LET path == environ.KLOCH_CONFIG_PATH
        base == from_file(path[1])
        \* "if environ:" is false for a variable that is unset or empty
        asdict == IF path # <<>> /\ path[1] # ""
                  THEN [field_name \in ConfigFields |-> <<base.value[1][field_name]>>]
                  ELSE [field_name \in ConfigFields |-> <<>>]
        updated == [field_name \in ConfigFields |->
                       LET env_var_value == environ[EnvironOf(field_name)]
                       IN  IF env_var_value # <<>>
                           THEN <<environ_cast(field_name, env_var_value[1])>>
                           ELSE asdict[field_name]]
    IN  IF path # <<>> /\ path[1] # "" /\ base.status # "ok"
        THEN base
        ELSE Returned(KlochConfig(updated))

-----------------------------------------------------------------------------
(* SpecConfig: from_environment under every environment and file *)

Comma == <<",">>

PluginValues == {<<>>, <<"m">>, <<"m">> \o Comma \o <<"n">>, <<"m">> \o Comma}

ConfigFiles ==
    [launcher_plugins : {<<>>, << <<>> >>, << << <<"p">> >> >>},
     cli_logging_format : {<<>>, <<"{levelname: <7}: {message}">>},
     cli_logging_default_level : {<<>>, <<"WARNING">>}]

InitConfig ==
    /\ files \in [{"config.yml"} -> ConfigFiles]
    /\ environ \in
           [KLOCH_CONFIG_PATH : {<<>>, <<"">>, <<"config.yml">>, <<"missing.yml">>},
            KLOCH_CONFIG_LAUNCHER_PLUGINS : {<<>>} \cup {<<v>> : v \in PluginValues},
            KLOCH_CONFIG_CLI_LOGGING_FORMAT : {<<>>, <<"">>, <<"{message}">>},
            KLOCH_CONFIG_CLI_LOGGING_DEFAULT_LEVEL : {<<>>, <<"">>, <<"ERROR">>}]
    /\ PROFILE_LOCATIONS_INTERNAL = <<>>
    /\ lhs = <<>>
    /\ rhs = [cls |-> "PackageManagersSerialized", items |-> <<>>]
    /\ heap = <<>>
    /\ out = IdleOut

FromEnvironment ==
    /\ out.op = "init"
    /\ LET r == from_environment
       IN  out' = [op |-> "from_environment", status |-> r.status, value |-> r.value]
    /\ UNCHANGED <<lhs, rhs, heap, files, environ, PROFILE_LOCATIONS_INTERNAL>>

NextConfig == FromEnvironment

SpecConfig == InitConfig /\ [][NextConfig]_vars

-----------------------------------------------------------------------------
(* C10: the precedence of from_environment *)

\* the file named by KLOCH_CONFIG_PATH is there to be read
ConfigFileRead ==
    /\ environ.KLOCH_CONFIG_PATH # <<>>
    /\ environ.KLOCH_CONFIG_PATH[1] \in DOMAIN files

\* no file is read: KLOCH_CONFIG_PATH is not set (an empty value counts as not
\* set)
NoConfigFile == environ.KLOCH_CONFIG_PATH \in {<<>>, <<"">>}

\* the value of a field's own variable, as the field's type
OwnVariable(field_name) ==
    LET raw == environ[EnvironOf(field_name)][1]
    IN  IF field_name # "launcher_plugins" THEN raw
        ELSE CASE raw = <<>> -> << <<>> >>
               [] raw = <<"m">> -> << <<"m">> >>
               [] raw = <<"m", ",", "n">> -> << <<"m">>, <<"n">> >>
               [] raw = <<"m", ",">> -> << <<"m">>, <<>> >>

\* the value precedence gives a field
ByPrecedence(field_name) ==
    IF environ[EnvironOf(field_name)] # <<>>
    THEN OwnVariable(field_name)
    ELSE IF ConfigFileRead /\ files[environ.KLOCH_CONFIG_PATH[1]][field_name] # <<>>
    THEN files[environ.KLOCH_CONFIG_PATH[1]][field_name][1]
    ELSE DefaultOf(field_name)

\* C10: from_environment gives each field the value of its own
\* KLOCH_CONFIG_<FIELD> variable if set, else the value of the file named by
\* KLOCH_CONFIG_PATH if set, else the default; a field's variable touches no
\* other field, and with no variable set the result is KlochConfig().
C10_Precedence ==
    (out.op = "from_environment" /\ (ConfigFileRead \/ NoConfigFile)) =>
        /\ out.status = "ok"
        /\ \A field_name \in ConfigFields :
               out.value[1][field_name] = ByPrecedence(field_name)
        /\ (\A name \in DOMAIN environ : environ[name] = <<>>) =>
               out.value[1] = [field_name \in ConfigFields |-> DefaultOf(field_name)]

\* C10 witness: the level comes from its variable while the format comes from
\* the file, which also gives a level.
C10_Witness ==
    /\ out.op = "from_environment"
    /\ ConfigFileRead
    /\ environ.KLOCH_CONFIG_CLI_LOGGING_DEFAULT_LEVEL = <<"ERROR">>
    /\ environ.KLOCH_CONFIG_CLI_LOGGING_FORMAT = <<>>
    /\ files[environ.KLOCH_CONFIG_PATH[1]].cli_logging_default_level = <<"WARNING">>
    /\ out.value[1].cli_logging_default_level = "ERROR"
    /\ out.value[1].cli_logging_format = "{levelname: <7}: {message}"

-----------------------------------------------------------------------------
(* filesyntax/_io.py: the registry of extra locations, as list objects *)

\* A reference to a python list is 0 for the list the module global
\* _PROFILE_LOCATIONS_INTERNAL is bound to, and n > 0 for the n-th list
\* allocated since; h holds the content of the allocated lists.
RegistryRef == 0

\* a plausible slip: the registry itself is handed out when the variable is
\* not set, where the code copies it
get_profile_locations_return_no_copy(h) ==
    LET locations == environ.KENV_PROFILE_PATHS
    IN  IF locations = <<>> /\ PROFILE_LOCATIONS_INTERNAL = <<>>
        THEN [heap |-> Append(h, <<>>), ret |-> Len(h) + 1]
        ELSE IF locations # <<>>
        THEN [heap |-> Append(h, locations \o PROFILE_LOCATIONS_INTERNAL),
              ret |-> Len(h) + 1]
        ELSE [heap |-> h, ret |-> RegistryRef]

\* get_profile_locations with the list object it returns: [] is a new list,
\* the comprehension is a new list that "+=" extends in place, and
\* list(_PROFILE_LOCATIONS_INTERNAL) is a copy
get_profile_locations_return(h) ==
    LET locations == environ.KENV_PROFILE_PATHS
    IN  IF locations = <<>> /\ PROFILE_LOCATIONS_INTERNAL = <<>>
        THEN [heap |-> Append(h, <<>>), ret |-> Len(h) + 1]
        ELSE IF locations # <<>>
        THEN [heap |-> Append(h, locations \o PROFILE_LOCATIONS_INTERNAL),
              ret |-> Len(h) + 1]
        ELSE [heap |-> Append(h, PROFILE_LOCATIONS_INTERNAL), ret |-> Len(h) + 1]

\* the content of the list behind a reference
Deref(h, registry, ref) == IF ref = RegistryRef THEN registry ELSE h[ref]

\* the lists after the list behind ref was given new content
Assign(h, registry, ref, content) ==
    IF ref = RegistryRef
    THEN [heap |-> h, registry |-> content]
    ELSE [heap |-> [h EXCEPT ![ref] = content], registry |-> registry]

-----------------------------------------------------------------------------
(* SpecLocations: add_profile_location, get_profile_locations and a caller *)
(* that mutates the lists it was returned                                  *)

Locations == {"d1", "d2"}

MaxCalls == 3
MaxLists == 2
MaxLen == 2

\* the module was just imported: the registry is the empty list; out.added
\* keeps the arguments of the add_profile_location calls made so far, and
\* out.value the list the caller was returned last
InitLocations ==
    /\ PROFILE_LOCATIONS_INTERNAL = <<>>
    /\ environ \in [KENV_PROFILE_PATHS : {<<>>, <<"d2">>, <<"d2", "d1">>, <<"d3", "d3">>}]
    /\ heap = <<>>
    /\ files = [path \in Paths |-> NoFile]
    /\ lhs = <<>>
    /\ rhs = [cls |-> "PackageManagersSerialized", items |-> <<>>]
    /\ out = [op |-> "init", status |-> "ok", value |-> <<>>, added |-> <<>>]

AddProfileLocation(location) ==
    /\ Len(out.added) < MaxCalls
    /\ PROFILE_LOCATIONS_INTERNAL' =
           add_profile_location(PROFILE_LOCATIONS_INTERNAL, location)
    /\ out' = [op |-> "add_profile_location", status |-> "ok", value |-> out.value,
               added |-> Append(out.added, location)]
    /\ UNCHANGED <<lhs, rhs, heap, files, environ>>

GetProfileLocations ==
    /\ Len(heap) < MaxLists
    /\ LET r == get_profile_locations_return(heap)
       IN  /\ heap' = r.heap
           /\ out' = [op |-> "get_profile_locations", status |-> "ok",
                      value |-> <<r.ret>>, added |-> out.added]
    /\ UNCHANGED <<lhs, rhs, files, environ, PROFILE_LOCATIONS_INTERNAL>>

\* the caller appends to the list it was returned
ReturnedAppend(location) ==
    /\ out.value # <<>>
    /\ Len(Deref(heap, PROFILE_LOCATIONS_INTERNAL, out.value[1])) < MaxLen
    /\ LET ref == out.value[1]
           r   == Assign(heap, PROFILE_LOCATIONS_INTERNAL, ref,
                         Append(Deref(heap, PROFILE_LOCATIONS_INTERNAL, ref), location))
       IN  /\ heap' = r.heap
           /\ PROFILE_LOCATIONS_INTERNAL' = r.registry
    /\ out' = [out EXCEPT !.op = "append"]
    /\ UNCHANGED <<lhs, rhs, files, environ>>

\* the caller clears the list it was returned
ReturnedClear ==
    /\ out.value # <<>>
    /\ Deref(heap, PROFILE_LOCATIONS_INTERNAL, out.value[1]) # <<>>
    /\ LET r == Assign(heap, PROFILE_LOCATIONS_INTERNAL, out.value[1], <<>>)
       IN  /\ heap' = r.heap
           /\ PROFILE_LOCATIONS_INTERNAL' = r.registry
    /\ out' = [out EXCEPT !.op = "clear"]
    /\ UNCHANGED <<lhs, rhs, files, environ>>

NextLocations ==
    \/ \E location \in Locations : AddProfileLocation(location)
    \/ GetProfileLocations
    \/ \E location \in Locations : ReturnedAppend(location)
    \/ ReturnedClear

SpecLocations == InitLocations /\ [][NextLocations]_vars

-----------------------------------------------------------------------------
(* C11: the registry of extra locations *)

RECURSIVE FirstRegistrations(_)
\* the locations of a sequence of registrations, each at its first place
FirstRegistrations(added) ==
    IF added = <<>> THEN <<>>
    ELSE LET n    == Len(added)
             prev == FirstRegistrations(SubSeq(added, 1, n - 1))
         IN  IF InSeq(added[n], prev) THEN prev ELSE Append(prev, added[n])

NoDuplicate(seq) == \A i, j \in DOMAIN seq : seq[i] = seq[j] => i = j

\* C11: whatever add_profile_location and get_profile_locations calls were
\* made and whatever the caller did to the lists it was returned, the
\* registry holds no path twice and holds exactly the paths registered, in
\* the order of their first registration; and what get_profile_locations
\* returns is a list of its own that holds the locations of the environment
\* variable followed by the registry.
C11_Registry ==
    /\ NoDuplicate(PROFILE_LOCATIONS_INTERNAL)
    /\ PROFILE_LOCATIONS_INTERNAL = FirstRegistrations(out.added)
    /\ out.value # <<>> => out.value[1] \in DOMAIN heap
    /\ out.op = "get_profile_locations" =>
           /\ out.value[1] = Len(heap)
           /\ heap[out.value[1]] =
                  environ.KENV_PROFILE_PATHS \o PROFILE_LOCATIONS_INTERNAL

\* C11 witness: a path was registered twice and another one after it, the
\* variable is not set, and the list get_profile_locations returned was
\* changed by the caller while the registry holds its two paths.
C11_Witness ==
    /\ Len(out.added) = 3
    /\ ~NoDuplicate(out.added)
    /\ Len(PROFILE_LOCATIONS_INTERNAL) = 2
    /\ environ.KENV_PROFILE_PATHS = <<>>
    /\ out.op = "append"
    /\ heap[out.value[1]] # PROFILE_LOCATIONS_INTERNAL

-----------------------------------------------------------------------------
(* C12: the recursion of read_profile_from_file *)

RECURSIVE Ancestry(_, _, _)
\* the files the resolution of path against locations reads, path first, cut
\* after n files: the walk goes from a file to the one file of locations that
\* declares its base, and ends at a file with no base, with another format
\* version, or whose base is declared by no file or by several
Ancestry(path, locations, n) ==
    IF n = 0 THEN <<>>
    ELSE IF \/ IntOf(files[path].magic[2]) # KENV_PROFILE_VERSION
            \/ files[path].base = <<>>
            \/ Cardinality(FilesDeclaring(files, files[path].base[1], locations)) # 1
    THEN <<path>>
    ELSE <<path>> \o Ancestry(TheFileDeclaring(files[path].base[1], locations),
                              locations, n - 1)

\* a walk that has not ended after one file more than there are files has
\* read some file twice: the base references form a cycle
Cyclic(path, locations) ==
    Len(Ancestry(path, locations, Cardinality(Paths) + 1)) > Cardinality(Paths)

\* C12 as stated: read_profile_from_file(path, locations) on files whose base
\* references, resolved against the search locations, form no cycle ends by
\* itself, with a profile or an error of the format or of a lookup, and the
\* depth of its recursion is the number of files of the chain, one read per
\* ancestor; when the base references form a cycle nothing stops the
\* recursion but the exhaustion of the call stack, and no profile is returned.
C12_AsStated ==
    out.op = "read_profile_from_file" =>
        LET locations == EffectiveLocations(out.profile_locations)
            chain == Ancestry(out.file_path, locations, Cardinality(Paths) + 1)
        IN  /\ ~Cyclic(out.file_path, locations) =>
                   /\ out.status # "RecursionError"
                   /\ out.frames = Len(chain)
            /\ Cyclic(out.file_path, locations) =>
                   /\ out.status = "RecursionError"
                   /\ out.value = <<>>

=============================================================================
